---- MODULE Spec2Model ----
(***************************************************************************)
(* State-machine model of src/main.py: a Telegram bot whose /imagine       *)
(* handler validates a prompt, calls an image-generation API and relays    *)
(* the image through a chain of delivery fallbacks.                        *)
(*                                                                         *)
(* Every statement of a handler that calls out of the process (a chat      *)
(* operation, the generation call, the download) is one action; what the   *)
(* outside world answers (a result or a raised exception) is chosen        *)
(* nondeterministically.  The bot handles its updates one by one, so the   *)
(* state is that of the one handler that runs: its locals, the calls it    *)
(* has made so far (calls), its logger lines (logs) and what the chat      *)
(* shows of this request (generating_msg, photos).                         *)
(***************************************************************************)
EXTENDS Integers, Sequences, FiniteSets, TLC

(***************************************************************************)
(* Bounds of the model.                                                    *)
(***************************************************************************)
MaxArgs == 2         \* most words after a command

(***************************************************************************)
(* Program constants.                                                      *)
(***************************************************************************)
MinPromptLen == 3        \* main.py:75   len(prompt) < 3
MaxPromptLen == 1000     \* main.py:79   len(prompt) > 1000
DownloadTimeout == 30    \* main.py:101  requests.get(image_url, timeout=30)
HttpOk == 200            \* main.py:104  response.status_code == 200
GenCount == 1            \* main.py:92   n=1
GenModel == "provider-1/FLUX.1-kontext-pro"    \* main.py:90
GenSize == "1024*1024"                         \* main.py:93

(***************************************************************************)
(* Strings.  Python's str is modelled by TLA+ strings, with Len, \o and    *)
(* SubSeq.                                                                 *)
(***************************************************************************)
RECURSIVE Rep(_, _)
Rep(s, n) ==
    IF n = 0 THEN ""
    ELSE IF n % 2 = 1 THEN s \o Rep(s, n - 1)
    ELSE LET h == Rep(s, n \div 2) IN h \o h

Whitespace == {" ", "\t", "\n", "\r"}

\* str.lstrip() / str.rstrip() / str.strip() with no argument.
RECURSIVE LStrip(_)
LStrip(s) ==
    IF Len(s) > 0 /\ SubSeq(s, 1, 1) \in Whitespace
    THEN LStrip(SubSeq(s, 2, Len(s)))
    ELSE s

RECURSIVE RStrip(_)
RStrip(s) ==
    IF Len(s) > 0 /\ SubSeq(s, Len(s), Len(s)) \in Whitespace
    THEN RStrip(SubSeq(s, 1, Len(s) - 1))
    ELSE s

Strip(s) == RStrip(LStrip(s))

\* sep.join(words)
RECURSIVE Join(_, _)
Join(sep, words) ==
    IF Len(words) = 0 THEN ""
    ELSE IF Len(words) = 1 THEN words[1]
    ELSE words[1] \o sep \o Join(sep, Tail(words))

(***************************************************************************)
(* Inputs.  context.args is the command's text split on whitespace, so     *)
(* every word is non-empty and holds no whitespace.                        *)
(***************************************************************************)
Words == {"a", "ab", "cat", "moon", Rep("x", 997)}

RECURSIVE SeqsUpTo(_, _)
SeqsUpTo(S, n) ==
    IF n = 0 THEN {<<>>}
    ELSE LET shorter == SeqsUpTo(S, n - 1)
         IN  shorter \cup {Append(q, w) : q \in {p \in shorter : Len(p) = n - 1}, w \in S}

ArgLists == SeqsUpTo(Words, MaxArgs)

\* The text of a message that is no command: too short for a prompt, fit
\* for one, or too long.
MessageTexts == {"a", "cat", "a cat on the moon", Rep("x", 1001)}

\* The text of a command message: the command, then its arguments.
CommandText(k, a) == IF Len(a) = 0 THEN "/" \o k ELSE "/" \o k \o " " \o Join(" ", a)

Commands == {"start", "help", "imagine"}
Kinds == Commands \cup {"text"}

\* Python's None, where a string is expected.
None == "<None>"

Urls == {"https://img.example/x.png"}

\* What client.images.generate can do: raise, or return a response whose
\* data list is empty, or whose first item has url None or a URL.
GenResults ==
    {[raised |-> TRUE, data |-> <<>>]}
    \cup {[raised |-> FALSE, data |-> <<>>]}
    \cup {[raised |-> FALSE, data |-> <<[url |-> u]>>] : u \in Urls \cup {None}}

\* What requests.get can do: raise, or return a response.
Statuses == {200, 404, 500}
Sizes == {0, 1024}
GetResults ==
    {[raised |-> TRUE, status_code |-> 0, size |-> 0]}
    \cup {[raised |-> FALSE, status_code |-> s, size |-> n] : s \in Statuses, n \in Sizes}

NoResponse == [raised |-> FALSE, status_code |-> 0, size |-> 0]
NoImgResponse == [raised |-> FALSE, data |-> <<>>]

(***************************************************************************)
(* Message texts: the template and the values formatted into it.           *)
(***************************************************************************)
Text(tmpl, p, u) == [tmpl |-> tmpl, prompt |-> p, url |-> u]

StartText      == Text("start", "", "")            \* main.py:29-34
HelpText       == Text("help", "", "")             \* main.py:39-57
UsageText      == Text("usage", "", "")            \* main.py:66-67
TooShortText   == Text("too_short", "", "")        \* main.py:76
TooLongText    == Text("too_long", "", "")         \* main.py:80
GeneratingText == Text("generating", "", "")       \* main.py:84
ErrorText      == Text("error", "", "")            \* main.py:147
ReminderText   == Text("reminder", "", "")         \* main.py:153-155
Caption(p)          == Text("caption", p, "")      \* main.py:111, 127
FallbackText(p, u)  == Text("fallback", p, u)      \* main.py:137-140

VARIABLES
    update,         \* the update being handled (kind, context.args, message text)
    pc,             \* where its handler stands
    prompt,         \* local prompt of imagine_command
    img_response,   \* local img_response: what client.images.generate returned
    image_url,      \* local image_url of imagine_command
    response,       \* local response: what requests.get returned
    generating_msg, \* the progress message as the chat shows it
    photos,         \* the photos the chat received for this update, in order
    calls,          \* the calls the handler made out of the process, in order
    logs,           \* the handler's logger lines, in order
    prev_outcome,   \* history: how the handler of the previous update ended
    repeated        \* history: this /imagine repeats the previous one's arguments

vars == <<update, pc, prompt, img_response, image_url, response,
          generating_msg, photos, calls, logs, prev_outcome, repeated>>

NoUpdate == [kind |-> "none", args |-> <<>>, text |-> ""]
NoMsg == [state |-> "none", text |-> Text("", "", "")]

Init ==
    /\ update = NoUpdate
    /\ pc = "idle"
    /\ prompt = ""
    /\ img_response = NoImgResponse
    /\ image_url = ""
    /\ response = NoResponse
    /\ generating_msg = NoMsg
    /\ photos = <<>>
    /\ calls = <<>>
    /\ logs = <<>>
    /\ prev_outcome = "other"
    /\ repeated = FALSE

(***************************************************************************)
(* Records of the calls made out of the process.                           *)
(***************************************************************************)
ReplyText(t, ok)  == [op |-> "reply_text", text |-> t, ok |-> ok]
EditText(t, ok)   == [op |-> "edit_text", text |-> t, ok |-> ok]
DeleteMsg(ok)     == [op |-> "delete", ok |-> ok]
ReplyPhoto(ph, c, ok) == [op |-> "reply_photo", photo |-> ph, caption |-> c, ok |-> ok]
GenerateCall(m, p, n, sz, res) ==
    [op |-> "generate", model |-> m, prompt |-> p, n |-> n, size |-> sz,
     ok |-> ~res.raised]
GetCall(u, t, res) ==
    [op |-> "get", url |-> u, timeout |-> t, status_code |-> res.status_code,
     size |-> res.size, ok |-> ~res.raised]

\* photo=image_file (BytesIO of the downloaded content, named
\* generated_image.png) and photo=image_url.
PhotoFile(n) == [kind |-> "bytes", name |-> "generated_image.png", size |-> n, url |-> ""]
PhotoUrl(u)  == [kind |-> "url", name |-> "", size |-> 0, url |-> u]

Shown(t) == [state |-> "shown", text |-> t]
Deleted  == [state |-> "deleted", text |-> Text("", "", "")]

(***************************************************************************)
(* What the outside world may answer.  A chat operation returns or raises. *)
(* requests.get raises on a url that is None, and Telegram accepts no      *)
(* photo that is None.                                                     *)
(***************************************************************************)
SinkOutcomes == BOOLEAN
GetOutcomes(u) == IF u = None THEN {g \in GetResults : g.raised} ELSE GetResults
PhotoOutcomes(ph) == IF ph.kind = "url" /\ ph.url = None THEN {FALSE} ELSE BOOLEAN

(***************************************************************************)
(* Decisions of imagine_command.                                           *)
(***************************************************************************)
\* main.py:73
MakePrompt(args) == Strip(Join(" ", args))

\* main.py:64
NoArgs(args) == Len(args) = 0

\* Variant of PromptTooShort: the bound taken one too low.
PromptTooShort_OffByOne(p) == Len(p) < MinPromptLen - 1

\* main.py:75
PromptTooShort(p) == Len(p) < MinPromptLen

\* main.py:79
PromptTooLong(p) == Len(p) > MaxPromptLen

\* main.py:64-84: the statement the checks lead to.
AfterChecks(args) ==
    IF NoArgs(args) THEN "reply_usage"
    ELSE IF PromptTooShort(MakePrompt(args)) THEN "reply_too_short"
    ELSE IF PromptTooLong(MakePrompt(args)) THEN "reply_too_long"
    ELSE "send_progress"

\* Variants of DownloadOk: the body's length is not looked at; the status
\* test is inverted.
DownloadOk_StatusOnly(resp) == resp.status_code = HttpOk
DownloadOk_Inverted(resp) == resp.status_code # HttpOk /\ resp.size > 0

\* main.py:104
DownloadOk(resp) == resp.status_code = HttpOk /\ resp.size > 0

\* Variants of ExceptTarget.  A failed generation call handled by the
\* download's except clause:
ExceptTarget_GenerateInner(at) ==
    CASE at \in {"generate", "download", "check_download", "send_bytes", "delete_a"}
            -> "url_fallback"
      [] at \in {"url_fallback", "delete_b"} -> "text_fallback"
      [] at \in {"read_url", "text_fallback"} -> "error_reply"
      [] OTHER -> "raised"

\* The refused download raised outside the inner try:
ExceptTarget_RefusalOuter(at) ==
    CASE at \in {"download", "send_bytes", "delete_a"} -> "url_fallback"
      [] at \in {"url_fallback", "delete_b"} -> "text_fallback"
      [] at \in {"generate", "read_url", "text_fallback", "check_download"} -> "error_reply"
      [] OTHER -> "raised"

\* No outer try around the fallbacks:
ExceptTarget_NoOuter(at) ==
    CASE at \in {"download", "check_download", "send_bytes", "delete_a"} -> "url_fallback"
      [] at \in {"url_fallback", "delete_b"} -> "text_fallback"
      [] at \in {"generate", "read_url"} -> "error_reply"
      [] OTHER -> "raised"

\* The try/except nesting of main.py:86-148: where control goes when the
\* statement at `at` raises.
ExceptTarget(at) ==
    CASE at \in {"download", "check_download", "send_bytes", "delete_a"}
            -> "url_fallback"                       \* except at main.py:120
      [] at \in {"url_fallback", "delete_b"}
            -> "text_fallback"                      \* except at main.py:132
      [] at \in {"generate", "read_url", "text_fallback"}
            -> "error_reply"                        \* except at main.py:144
      [] OTHER -> "raised"                          \* leaves the handler

\* Where the handler goes after the statement at `at` returned (ok, then
\* `next`) or raised.
After(at, ok, next) == IF ok THEN next ELSE ExceptTarget(at)

\* The handler has returned, or an exception has left it.
Finished == pc \in {"returned", "raised", "errored"}

\* main.py:177, 195: the Application is built without concurrent_updates, so
\* the next update is handled when the handler of the previous one (and the
\* error handler, if it raised) is through.
MayDispatch == pc \in {"idle", "returned", "errored"}

(***************************************************************************)
(* What a handler has done so far, read off its calls and logger lines.    *)
(***************************************************************************)
CallIdx(op) == {i \in 1..Len(calls) : calls[i].op = op}
NumCalls(op) == Cardinality(CallIdx(op))
Logged(l) == \E i \in 1..Len(logs) : logs[i] = l

IsImagine == update.kind = "imagine"

CorrectiveIdx ==
    {i \in CallIdx("reply_text") : calls[i].text \in {UsageText, TooShortText, TooLongText}}

\* The outcome of a finished /imagine request, as the handler reports it:
\* the corrective reply (main.py:65-81), the logger line of the tier that
\* delivered (main.py:114, 130, 142) or of the generic failure (main.py:145),
\* which is GenerationFailed when no result URL was ever fetched.
Outcome ==
    IF ~Finished \/ ~IsImagine THEN "None"
    ELSE IF CorrectiveIdx # {} THEN "ValidationError"
    ELSE IF Logged("error: Error generating image")
         THEN IF CallIdx("get") = {} THEN "GenerationFailed" ELSE "Failed"
    ELSE IF Logged("info: Sent image URL as text fallback") THEN "Delivered(via=TextFallback)"
    ELSE IF Logged("info: Image sent successfully via URL method") THEN "Delivered(via=RemoteUrl)"
    ELSE IF Logged("info: Image sent successfully via download method") THEN "Delivered(via=Download)"
    ELSE "Unhandled"

\* What is kept of it once the next update is handled.
HowEnded ==
    IF Outcome \in {"Delivered(via=Download)", "Delivered(via=RemoteUrl)",
                    "Delivered(via=TextFallback)"} THEN "delivered"
    ELSE IF Outcome \in {"GenerationFailed", "Failed", "Unhandled"} THEN "failed"
    ELSE "other"

(***************************************************************************)
(* Actions.                                                                *)
(***************************************************************************)
Call(c) == calls' = Append(calls, c)
Log(l)  == logs' = Append(logs, l)
Goto(l) == pc' = l

\* A dispatcher that remembers the last generated URL: an /imagine that
\* repeats the arguments of the one before goes straight to delivery.
Dispatch_Cached ==
    /\ MayDispatch
    /\ \E k \in Kinds, a \in ArgLists :
       \E t \in (IF k = "text" THEN MessageTexts ELSE {CommandText(k, a)}) :
          LET hit == /\ k = "imagine" /\ update.kind = "imagine"
                     /\ a = update.args /\ image_url \in Urls IN
          /\ k # "imagine" => a = <<>>
          /\ update' = [kind |-> k, args |-> a, text |-> t]
          /\ repeated' = (k = "imagine" /\ update.kind = "imagine" /\ a = update.args)
          /\ Goto(IF hit THEN "download" ELSE k)
          /\ prompt' = IF hit THEN prompt ELSE ""
          /\ img_response' = IF hit THEN img_response ELSE NoImgResponse
          /\ image_url' = IF hit THEN image_url ELSE ""
    /\ prev_outcome' = HowEnded
    /\ response' = NoResponse
    /\ generating_msg' = NoMsg
    /\ photos' = <<>>
    /\ calls' = <<>>
    /\ logs' = <<>>

\* main.py:180-185: an update arrives and its handler is chosen; the
\* handler starts with fresh locals.  Only a command has context.args.
\* prev_outcome and repeated keep, of the update handled before, how it
\* ended and whether this one repeats its /imagine arguments.
Dispatch ==
    /\ MayDispatch
    /\ \E k \in Kinds, a \in ArgLists :
       \E t \in (IF k = "text" THEN MessageTexts ELSE {CommandText(k, a)}) :
          /\ k # "imagine" => a = <<>>
          /\ update' = [kind |-> k, args |-> a, text |-> t]
          /\ repeated' = (k = "imagine" /\ update.kind = "imagine" /\ a = update.args)
          /\ Goto(k)
    /\ prev_outcome' = HowEnded
    /\ prompt' = ""
    /\ img_response' = NoImgResponse
    /\ image_url' = ""
    /\ response' = NoResponse
    /\ generating_msg' = NoMsg
    /\ photos' = <<>>
    /\ calls' = <<>>
    /\ logs' = <<>>

\* main.py:26-35
Start ==
    /\ pc = "start"
    /\ \E ok \in SinkOutcomes :
          /\ Call(ReplyText(StartText, ok))
          /\ Goto(After("start", ok, "returned"))
    /\ UNCHANGED <<update, prompt, img_response, image_url, response,
                   generating_msg, photos, logs>>
    /\ UNCHANGED <<prev_outcome, repeated>>

\* main.py:37-58
HelpCommand ==
    /\ pc = "help"
    /\ \E ok \in SinkOutcomes :
          /\ Call(ReplyText(HelpText, ok))
          /\ Goto(After("help", ok, "returned"))
    /\ UNCHANGED <<update, prompt, img_response, image_url, response,
                   generating_msg, photos, logs>>
    /\ UNCHANGED <<prev_outcome, repeated>>

\* A text handler that takes the message text as a prompt and starts the
\* pipeline when its length is in range.
HandleTextMessages_AsPrompt ==
    /\ pc = "text"
    /\ LET p == Strip(update.text) IN
          IF Len(p) >= MinPromptLen /\ Len(p) <= MaxPromptLen
          THEN /\ prompt' = p
               /\ Goto("send_progress")
               /\ UNCHANGED calls
          ELSE /\ prompt' = prompt
               /\ \E ok \in SinkOutcomes :
                     /\ Call(ReplyText(ReminderText, ok))
                     /\ Goto(After("text", ok, "returned"))
    /\ UNCHANGED <<update, img_response, image_url, response,
                   generating_msg, photos, logs>>
    /\ UNCHANGED <<prev_outcome, repeated>>

\* main.py:150-157
HandleTextMessages ==
    /\ pc = "text"
    /\ \E ok \in SinkOutcomes :
          /\ Call(ReplyText(ReminderText, ok))
          /\ Goto(After("text", ok, "returned"))
    /\ UNCHANGED <<update, prompt, img_response, image_url, response,
                   generating_msg, photos, logs>>
    /\ UNCHANGED <<prev_outcome, repeated>>

\* main.py:64-81: the checks on the arguments and the prompt, up to the
\* reply each one leads to.
Validate ==
    /\ pc = "imagine"
    /\ prompt' = IF NoArgs(update.args) THEN prompt ELSE MakePrompt(update.args)
    /\ Goto(AfterChecks(update.args))
    /\ UNCHANGED <<update, img_response, image_url, response, generating_msg,
                   photos, calls, logs>>
    /\ UNCHANGED <<prev_outcome, repeated>>

\* main.py:65-70, 76-77, 80-81: the corrective reply, then return.
CorrectiveText(at) ==
    CASE at = "reply_usage" -> UsageText
      [] at = "reply_too_short" -> TooShortText
      [] at = "reply_too_long" -> TooLongText

Reject ==
    /\ pc \in {"reply_usage", "reply_too_short", "reply_too_long"}
    /\ \E ok \in SinkOutcomes :
          /\ Call(ReplyText(CorrectiveText(pc), ok))
          /\ Goto(After(pc, ok, "returned"))
    /\ UNCHANGED <<update, prompt, img_response, image_url, response,
                   generating_msg, photos, logs>>
    /\ UNCHANGED <<prev_outcome, repeated>>

\* main.py:84
SendProgress ==
    /\ pc = "send_progress"
    /\ \E ok \in SinkOutcomes :
          /\ Call(ReplyText(GeneratingText, ok))
          /\ generating_msg' = IF ok THEN Shown(GeneratingText) ELSE generating_msg
          /\ Goto(After("send_progress", ok, "generate"))
    /\ UNCHANGED <<update, prompt, img_response, image_url, response, photos, logs>>
    /\ UNCHANGED <<prev_outcome, repeated>>

\* main.py:88-94
Generate ==
    /\ pc = "generate"
    /\ \E res \in GenResults :
          /\ Call(GenerateCall(GenModel, prompt, GenCount, GenSize, res))
          /\ img_response' = IF res.raised THEN img_response ELSE res
          /\ Goto(After("generate", ~res.raised, "read_url"))
    /\ Log("info: Generating image for prompt")
    /\ UNCHANGED <<update, prompt, image_url, response, generating_msg, photos>>
    /\ UNCHANGED <<prev_outcome, repeated>>

\* main.py:96-97: data[0] of an empty list raises IndexError.
ReadUrl ==
    /\ pc = "read_url"
    /\ LET ok == Len(img_response.data) > 0 IN
          /\ image_url' = IF ok THEN img_response.data[1].url ELSE image_url
          /\ logs' = IF ok THEN Append(logs, "info: Generated image URL") ELSE logs
          /\ Goto(After("read_url", ok, "download"))
    /\ UNCHANGED <<update, prompt, img_response, response, generating_msg, photos, calls>>
    /\ UNCHANGED <<prev_outcome, repeated>>

\* main.py:101-102
Download ==
    /\ pc = "download"
    /\ \E res \in GetOutcomes(image_url) :
          /\ Call(GetCall(image_url, DownloadTimeout, res))
          /\ response' = IF res.raised THEN response ELSE res
          /\ logs' = IF res.raised THEN logs ELSE Append(logs, "info: Download status")
          /\ Goto(After("download", ~res.raised, "check_download"))
    /\ UNCHANGED <<update, prompt, img_response, image_url, generating_msg, photos>>
    /\ UNCHANGED <<prev_outcome, repeated>>

\* main.py:104-107, 116-118
CheckDownload ==
    /\ pc = "check_download"
    /\ Goto(After("check_download", DownloadOk(response), "send_bytes"))
    /\ UNCHANGED <<update, prompt, img_response, image_url, response,
                   generating_msg, photos, calls, logs>>
    /\ UNCHANGED <<prev_outcome, repeated>>

\* main.py:109-112
SendPhotoBytes ==
    /\ pc = "send_bytes"
    /\ LET ph == PhotoFile(response.size) IN
       \E ok \in PhotoOutcomes(ph) :
          /\ Call(ReplyPhoto(ph, Caption(prompt), ok))
          /\ photos' = IF ok THEN Append(photos, [photo |-> ph, caption |-> Caption(prompt)])
                       ELSE photos
          /\ Goto(After("send_bytes", ok, "delete_a"))
    /\ UNCHANGED <<update, prompt, img_response, image_url, response,
                   generating_msg, logs>>
    /\ UNCHANGED <<prev_outcome, repeated>>

\* main.py:113-114
DeleteAfterBytes ==
    /\ pc = "delete_a"
    /\ \E ok \in SinkOutcomes :
          /\ Call(DeleteMsg(ok))
          /\ generating_msg' = IF ok THEN Deleted ELSE generating_msg
          /\ logs' = IF ok
                     THEN Append(logs, "info: Image sent successfully via download method")
                     ELSE logs
          /\ Goto(After("delete_a", ok, "returned"))
    /\ UNCHANGED <<update, prompt, img_response, image_url, response, photos>>
    /\ UNCHANGED <<prev_outcome, repeated>>

\* main.py:120-128
SendPhotoUrl ==
    /\ pc = "url_fallback"
    /\ LET ph == PhotoUrl(image_url) IN
       \E ok \in PhotoOutcomes(ph) :
          /\ Call(ReplyPhoto(ph, Caption(prompt), ok))
          /\ photos' = IF ok THEN Append(photos, [photo |-> ph, caption |-> Caption(prompt)])
                       ELSE photos
          /\ Goto(After("url_fallback", ok, "delete_b"))
    /\ Log("warning: Download method failed")
    /\ UNCHANGED <<update, prompt, img_response, image_url, response, generating_msg>>
    /\ UNCHANGED <<prev_outcome, repeated>>

\* main.py:129-130
DeleteAfterUrl ==
    /\ pc = "delete_b"
    /\ \E ok \in SinkOutcomes :
          /\ Call(DeleteMsg(ok))
          /\ generating_msg' = IF ok THEN Deleted ELSE generating_msg
          /\ logs' = IF ok
                     THEN Append(logs, "info: Image sent successfully via URL method")
                     ELSE logs
          /\ Goto(After("delete_b", ok, "returned"))
    /\ UNCHANGED <<update, prompt, img_response, image_url, response, photos>>
    /\ UNCHANGED <<prev_outcome, repeated>>

\* main.py:132-142
EditTextFallback ==
    /\ pc = "text_fallback"
    /\ LET t == FallbackText(prompt, image_url) IN
       \E ok \in SinkOutcomes :
          /\ Call(EditText(t, ok))
          /\ generating_msg' = IF ok THEN Shown(t) ELSE generating_msg
          /\ logs' = IF ok
                     THEN logs \o <<"error: URL method also failed",
                                    "info: Sent image URL as text fallback">>
                     ELSE Append(logs, "error: URL method also failed")
          /\ Goto(After("text_fallback", ok, "returned"))
    /\ UNCHANGED <<update, prompt, img_response, image_url, response, photos>>
    /\ UNCHANGED <<prev_outcome, repeated>>

\* main.py:144-148
EditTextError ==
    /\ pc = "error_reply"
    /\ \E ok \in SinkOutcomes :
          /\ Call(EditText(ErrorText, ok))
          /\ generating_msg' = IF ok THEN Shown(ErrorText) ELSE generating_msg
          /\ Goto(After("error_reply", ok, "returned"))
    /\ Log("error: Error generating image")
    /\ UNCHANGED <<update, prompt, img_response, image_url, response, photos>>
    /\ UNCHANGED <<prev_outcome, repeated>>

\* main.py:159-161, 188: an exception that left a handler is logged.
ErrorHandler ==
    /\ pc = "raised"
    /\ Log("warning: Update caused error")
    /\ Goto("errored")
    /\ UNCHANGED <<update, prompt, img_response, image_url, response,
                   generating_msg, photos, calls>>
    /\ UNCHANGED <<prev_outcome, repeated>>

Next ==
    \/ Dispatch
    \/ Start
    \/ HelpCommand
    \/ HandleTextMessages
    \/ Validate
    \/ Reject
    \/ SendProgress
    \/ Generate
    \/ ReadUrl
    \/ Download
    \/ CheckDownload
    \/ SendPhotoBytes
    \/ DeleteAfterBytes
    \/ SendPhotoUrl
    \/ DeleteAfterUrl
    \/ EditTextFallback
    \/ EditTextError
    \/ ErrorHandler

Spec == Init /\ [][Next]_vars

(***************************************************************************)
(* Vocabulary of the properties.                                           *)
(***************************************************************************)
\* The prompt of the request: the arguments joined by single spaces, trimmed.
RequestPrompt == Strip(Join(" ", update.args))
PromptInRange == Len(update.args) > 0 /\ Len(RequestPrompt) >= 3 /\ Len(RequestPrompt) <= 1000

\* Calls by kind.
ProgressIdx == {i \in CallIdx("reply_text") : calls[i].text = GeneratingText}
BytesPhotoIdx == {i \in CallIdx("reply_photo") : calls[i].photo.kind = "bytes"}
UrlPhotoIdx == {i \in CallIdx("reply_photo") : calls[i].photo.kind = "url"}
FallbackEditIdx == {i \in CallIdx("edit_text") : calls[i].text.tmpl = "fallback"}
ErrorEditIdx == {i \in CallIdx("edit_text") : calls[i].text = ErrorText}
Ok(I) == {i \in I : calls[i].ok}
Failed(I) == {i \in I : ~calls[i].ok}

ProgressSent == Ok(ProgressIdx) # {}
GenerationRaised == Failed(CallIdx("generate")) # {}
\* The download returned a response that is not a 200 with a body.
DownloadRefused ==
    \E i \in Ok(CallIdx("get")) : calls[i].status_code # 200 \/ calls[i].size = 0
DownloadGood ==
    \E i \in Ok(CallIdx("get")) : calls[i].status_code = 200 /\ calls[i].size > 0

StillGenerating == generating_msg = Shown(GeneratingText)

(***************************************************************************)
(* C1.  An /imagine request whose prompt is absent, shorter than 3 or      *)
(* longer than 1000 characters makes exactly one call out of the process,  *)
(* the corrective reply that fits the defect, and then ends: no generation *)
(* call, no download and no progress notification are ever made.           *)
(***************************************************************************)
C1_InvalidPromptOnlyCorrectiveReply ==
    (IsImagine /\ ~PromptInRange) =>
        /\ NumCalls("generate") = 0
        /\ NumCalls("get") = 0
        /\ ProgressIdx = {}
        /\ generating_msg = NoMsg
        /\ Len(calls) <= 1
        /\ Finished =>
              /\ Len(calls) = 1
              /\ calls[1].op = "reply_text"
              /\ calls[1].text = (IF Len(update.args) = 0 THEN UsageText
                                  ELSE IF Len(RequestPrompt) < 3 THEN TooShortText
                                  ELSE TooLongText)
              /\ calls[1].ok => pc = "returned"
              /\ Outcome = "ValidationError"

C1_Witness ==
    /\ IsImagine /\ pc = "returned"
    /\ Len(RequestPrompt) = 1001
    /\ Len(calls) = 1 /\ calls[1].text = TooLongText

(***************************************************************************)
(* C2.  As claimed: an /imagine request whose prompt has 3 to 1000         *)
(* characters has made exactly one generation call when its handler is     *)
(* finished, whatever the chat operations answered.                        *)
(***************************************************************************)
C2_ExactlyOneGenerationCall ==
    (IsImagine /\ PromptInRange /\ Finished) => NumCalls("generate") = 1

(***************************************************************************)
(* C3.  As claimed: when the generation call raised, a finished request    *)
(* is GenerationFailed and its progress notification shows the generic     *)
(* error text, having been edited once and never deleted.                  *)
(***************************************************************************)
C3_GenerationFailedReplacedOnce ==
    (GenerationRaised /\ Finished) =>
        /\ Outcome = "GenerationFailed"
        /\ generating_msg = Shown(ErrorText)
        /\ NumCalls("edit_text") = 1
        /\ NumCalls("delete") = 0

(***************************************************************************)
(* C3 amended.  When the generation call raised, a finished request is     *)
(* GenerationFailed; the handler has made exactly one edit of the progress *)
(* notification, to the generic error text, and no deletion; the           *)
(* notification shows the generic error text if that edit returned, and    *)
(* is left as it was, the exception leaving the handler, if it raised.     *)
(***************************************************************************)
C3_GenerationFailedOneEdit ==
    GenerationRaised =>
        /\ NumCalls("delete") = 0
        /\ NumCalls("edit_text") <= 1
        /\ Finished =>
              /\ Outcome = "GenerationFailed"
              /\ NumCalls("edit_text") = 1
              /\ calls[Len(calls)] \in {EditText(ErrorText, TRUE), EditText(ErrorText, FALSE)}
              /\ calls[Len(calls)].ok => pc = "returned" /\ generating_msg = Shown(ErrorText)
              /\ ~calls[Len(calls)].ok => pc \in {"raised", "errored"} /\ StillGenerating

C3_Witness ==
    /\ GenerationRaised /\ pc = "returned"
    /\ generating_msg = Shown(ErrorText)
    /\ NumCalls("edit_text") = 1

(***************************************************************************)
(* C4.  Once the generation call has raised, no delivery is attempted: no  *)
(* download, no photo send of either kind and no text-fallback edit.       *)
(***************************************************************************)
C4_NoDeliveryAfterGenerationFailure ==
    GenerationRaised =>
        /\ NumCalls("get") = 0
        /\ NumCalls("reply_photo") = 0
        /\ FallbackEditIdx = {}
        /\ photos = <<>>
        /\ pc \in {"error_reply", "returned", "raised", "errored"}

C4_Witness ==
    /\ GenerationRaised /\ Finished
    /\ ErrorEditIdx # {}

(***************************************************************************)
(* C5.  When the download returned a response that is not a 200 with a    *)
(* non-empty body, the photo-by-URL send is the next call the handler      *)
(* makes: it precedes every edit of the notification and the handler's     *)
(* end.                                                                    *)
(***************************************************************************)
C5_StrategyBBeforeTerminal ==
    DownloadRefused =>
        /\ pc \in {"check_download", "url_fallback"} \/ UrlPhotoIdx # {}
        /\ \A i \in CallIdx("edit_text") \cup CallIdx("delete") \cup BytesPhotoIdx :
              \E j \in UrlPhotoIdx : j < i
        /\ Finished => UrlPhotoIdx # {}

C5_Witness ==
    /\ DownloadRefused /\ Finished
    /\ \E i \in Ok(CallIdx("get")) : calls[i].status_code = 404
    /\ UrlPhotoIdx # {}
    /\ Outcome = "Failed"

(***************************************************************************)
(* C6.  As claimed: the chat receives at most one photo per request,       *)
(* counting the photo sent with bytes and the photo sent by URL.           *)
(***************************************************************************)
C6_AtMostOnePhoto ==
    Len(photos) <= 1

(***************************************************************************)
(* C7.  As claimed: once the progress notification is sent, a finished     *)
(* handler (returned, or left by an exception) has deleted it or edited it *)
(* to another text, whatever the calls answered.                           *)
(***************************************************************************)
C7_NeverLeftWithSpinner ==
    (IsImagine /\ ProgressSent /\ Finished) => ~StillGenerating

(***************************************************************************)
(* C7 amended.  Once the progress notification is sent, a handler that     *)
(* returned has deleted it or edited it to another text; it is left as the *)
(* spinner only when the handler's last call, the edit to the generic      *)
(* error text, raised, and that exception left the handler.                *)
(***************************************************************************)
C7_SpinnerOnlyWhenErrorEditRaised ==
    (IsImagine /\ ProgressSent /\ Finished) =>
        \/ generating_msg = Deleted
        \/ generating_msg.state = "shown" /\ generating_msg.text.tmpl \in {"fallback", "error"}
        \/ /\ StillGenerating
           /\ pc \in {"raised", "errored"}
           /\ calls[Len(calls)] = EditText(ErrorText, FALSE)

C7_Witness ==
    /\ IsImagine /\ ProgressSent /\ pc = "returned"
    /\ Failed(CallIdx("delete")) # {}
    /\ Failed(UrlPhotoIdx) # {}
    /\ Failed(FallbackEditIdx) # {}
    /\ generating_msg = Shown(ErrorText)

(***************************************************************************)
(* C8.  The three delivery strategies have failed: strategy A (the         *)
(* download raised or was refused, or the photo send or the deletion after *)
(* it raised), the photo-by-URL send of B, and the text-fallback edit of   *)
(* C.                                                                      *)
(***************************************************************************)
StrategyAFailed ==
    \/ Failed(CallIdx("get")) # {}
    \/ DownloadRefused
    \/ Failed(BytesPhotoIdx) # {}
    \/ \E i \in Failed(CallIdx("delete")) : \E j \in Ok(BytesPhotoIdx) : i = j + 1

AllStrategiesFailed ==
    /\ StrategyAFailed
    /\ Failed(UrlPhotoIdx) # {}
    /\ Failed(FallbackEditIdx) # {}

(***************************************************************************)
(* C8.  As claimed: when all three strategies have failed, a finished      *)
(* request is Failed, its notification no longer shows the generating      *)
(* text, and at most one edit of it succeeded.                             *)
(***************************************************************************)
C8_AllFailedReplacedOnce ==
    (AllStrategiesFailed /\ Finished) =>
        /\ Outcome = "Failed"
        /\ ~StillGenerating
        /\ Cardinality(Ok(CallIdx("edit_text"))) <= 1

(***************************************************************************)
(* C8 amended.  When all three strategies have failed, a finished request  *)
(* is Failed; after the failed text-fallback edit the handler made one     *)
(* more call, the edit to the generic error text; at most one edit         *)
(* succeeded; the notification shows the generic error text if that last   *)
(* edit returned, and still shows the generating text, the exception       *)
(* leaving the handler, if it raised.                                      *)
(***************************************************************************)
C8_AllFailedOneErrorEdit ==
    (AllStrategiesFailed /\ Finished) =>
        /\ Outcome = "Failed"
        /\ Cardinality(ErrorEditIdx) = 1
        /\ Cardinality(FallbackEditIdx) = 1
        /\ NumCalls("edit_text") = 2
        /\ Cardinality(Ok(CallIdx("edit_text"))) <= 1
        /\ calls[Len(calls)].op = "edit_text" /\ calls[Len(calls)].text = ErrorText
        /\ calls[Len(calls)].ok => pc = "returned" /\ generating_msg = Shown(ErrorText)
        /\ ~calls[Len(calls)].ok => pc \in {"raised", "errored"} /\ StillGenerating

C8_Witness ==
    /\ AllStrategiesFailed /\ pc = "returned"
    /\ DownloadRefused
    /\ generating_msg = Shown(ErrorText)
    /\ photos = <<>>

(***************************************************************************)
(* C9.  A finished request whose generation returned a URL, whose download *)
(* returned 200 with a body, and whose photo send and deletion did not     *)
(* raise, is Delivered(via=Download): its calls are the progress reply,    *)
(* the generation call, the download, one photo send with the bytes and a  *)
(* caption holding the prompt, and one deletion; no photo by URL, no edit. *)
(***************************************************************************)
C9_DownloadDelivery ==
    (/\ Finished /\ DownloadGood
     /\ Failed(BytesPhotoIdx) = {}
     /\ Failed(CallIdx("delete")) = {}) =>
        /\ Outcome = "Delivered(via=Download)"
        /\ pc = "returned"
        /\ Len(calls) = 5
        /\ calls[4].op = "reply_photo" /\ calls[4].photo.kind = "bytes"
        /\ calls[4].photo.size > 0
        /\ calls[4].caption = Text("caption", RequestPrompt, "")
        /\ calls[5].op = "delete"
        /\ Cardinality(BytesPhotoIdx) = 1
        /\ NumCalls("delete") = 1
        /\ UrlPhotoIdx = {}
        /\ NumCalls("edit_text") = 0
        /\ Len(photos) = 1 /\ photos[1].photo.kind = "bytes"
        /\ generating_msg = Deleted

C9_Witness ==
    /\ Finished /\ DownloadGood
    /\ Failed(BytesPhotoIdx) = {} /\ Failed(CallIdx("delete")) = {}
    /\ Outcome = "Delivered(via=Download)"
    /\ Len(RequestPrompt) = 1000

(***************************************************************************)
(* C10.  A finished request whose download was refused (a status other     *)
(* than 200, or an empty body), whose photo-by-URL send returned and whose *)
(* deletion did not raise, is Delivered(via=RemoteUrl): the chat received  *)
(* exactly one photo, by URL; no photo send with bytes was made; the       *)
(* notification is deleted and was never edited.                           *)
(***************************************************************************)
C10_RemoteUrlDelivery ==
    (/\ Finished /\ DownloadRefused
     /\ Ok(UrlPhotoIdx) # {}
     /\ Failed(CallIdx("delete")) = {}) =>
        /\ Outcome = "Delivered(via=RemoteUrl)"
        /\ pc = "returned"
        /\ Len(photos) = 1
        /\ photos[1].photo = PhotoUrl(image_url)
        /\ photos[1].caption = Text("caption", RequestPrompt, "")
        /\ image_url \in Urls
        /\ BytesPhotoIdx = {}
        /\ Cardinality(UrlPhotoIdx) = 1
        /\ NumCalls("delete") = 1
        /\ generating_msg = Deleted
        /\ NumCalls("edit_text") = 0

C10_Witness ==
    /\ Finished /\ DownloadRefused
    /\ \E i \in Ok(CallIdx("get")) : calls[i].status_code = 500
    /\ Ok(UrlPhotoIdx) # {}
    /\ Failed(CallIdx("delete")) = {}
    /\ Outcome = "Delivered(via=RemoteUrl)"

(***************************************************************************)
(* C11.  As claimed: a finished request whose generation returned a URL,   *)
(* whose strategy A failed, whose photo-by-URL send raised and whose edit   *)
(* of the notification returned is Delivered(via=TextFallback): the         *)
(* notification was edited once, to a text holding the prompt and the      *)
(* image URL, the chat received no photo, and the generic failure text was *)
(* never sent.                                                             *)
(***************************************************************************)
C11_TextFallbackDelivery ==
    (/\ Finished /\ StrategyAFailed
     /\ image_url \in Urls
     /\ Failed(UrlPhotoIdx) # {}
     /\ Ok(FallbackEditIdx) # {}) =>
        /\ Outcome = "Delivered(via=TextFallback)"
        /\ NumCalls("edit_text") = 1
        /\ generating_msg = Shown(Text("fallback", RequestPrompt, image_url))
        /\ photos = <<>>
        /\ ErrorEditIdx = {}

\* The generation call returned, with an empty data list or with a first
\* item whose url is None.
NoUsableUrl ==
    /\ Ok(CallIdx("generate")) # {}
    /\ \/ img_response.data = <<>>
       \/ img_response.data[1].url = None

(***************************************************************************)
(* C12.  As claimed: a finished request whose generation call returned     *)
(* without a usable URL is GenerationFailed: the notification was edited   *)
(* to the generic error text, and no download fetch, no photo-by-URL send  *)
(* and no text-fallback edit was attempted.                                *)
(***************************************************************************)
C12_NoUsableUrlIsGenerationFailed ==
    (Finished /\ NoUsableUrl) =>
        /\ Outcome = "GenerationFailed"
        /\ ErrorEditIdx # {}
        /\ CallIdx("get") = {}
        /\ UrlPhotoIdx = {}
        /\ FallbackEditIdx = {}

(***************************************************************************)
(* C13.  As claimed: a finished request whose download was good and whose  *)
(* photo-with-bytes send raised is Failed: the notification was edited to  *)
(* the generic error text, and neither the photo-by-URL send nor the       *)
(* text-fallback edit was attempted.                                       *)
(***************************************************************************)
C13_UnexpectedDeliveryErrorIsFatal ==
    (Finished /\ DownloadGood /\ Failed(BytesPhotoIdx) # {}) =>
        /\ Outcome = "Failed"
        /\ ErrorEditIdx # {}
        /\ UrlPhotoIdx = {}
        /\ FallbackEditIdx = {}

\* What the chat holds according to the calls of the current handler alone:
\* the photos of the photo sends that returned, and the notification as the
\* last returned send, edit or deletion left it.
PhotosOf(cs) ==
    LET sent == SelectSeq(cs, LAMBDA c : c.op = "reply_photo" /\ c.ok)
    IN  [i \in 1..Len(sent) |-> [photo |-> sent[i].photo, caption |-> sent[i].caption]]
MsgOf(cs) ==
    LET I == {i \in 1..Len(cs) :
                 /\ cs[i].ok
                 /\ \/ cs[i].op \in {"edit_text", "delete"}
                    \/ cs[i].op = "reply_text" /\ cs[i].text = GeneratingText}
    IN  IF I = {} THEN NoMsg
        ELSE LET m == CHOOSE i \in I : \A j \in I : j <= i
             IN  IF cs[m].op = "delete" THEN Deleted ELSE Shown(cs[m].text)

(***************************************************************************)
(* C14.  Requests are independent and uncached.  Every handler starts with *)
(* no call made and fresh locals, whatever the update before it was and    *)
(* however it ended; what the chat holds is determined by the calls of the *)
(* current handler alone; and an /imagine that got past its generation     *)
(* step made exactly one generation call, with its own prompt, also when   *)
(* it repeats the arguments of the request before it.  Every later call    *)
(* of the request carries this request's prompt and URL.                   *)
(***************************************************************************)
C14_RequestsIndependent ==
    /\ pc \in Kinds =>
          /\ calls = <<>> /\ logs = <<>> /\ photos = <<>>
          /\ prompt = "" /\ image_url = ""
          /\ img_response = NoImgResponse /\ response = NoResponse
          /\ generating_msg = NoMsg
    /\ photos = PhotosOf(calls)
    /\ generating_msg = MsgOf(calls)
    /\ (CallIdx("get") \cup CallIdx("reply_photo") \cup CallIdx("edit_text") # {}) =>
          /\ NumCalls("generate") = 1
          /\ \A i \in CallIdx("generate") : calls[i].prompt = RequestPrompt
    /\ (Finished /\ IsImagine /\ PromptInRange /\ ProgressSent) =>
          NumCalls("generate") = 1
    /\ \A i \in CallIdx("get") : calls[i].url = image_url
    /\ \A i \in CallIdx("reply_photo") : calls[i].caption = Caption(RequestPrompt)
    /\ \A i \in UrlPhotoIdx : calls[i].photo.url = image_url
    /\ (image_url # "") =>
          /\ Ok(CallIdx("generate")) # {}
          /\ image_url = img_response.data[1].url

\* An /imagine repeating the arguments of a request that failed is
\* delivered through its own generation call and download.
C14_Witness ==
    /\ repeated
    /\ prev_outcome = "failed"
    /\ Outcome = "Delivered(via=Download)"
    /\ NumCalls("generate") = 1

(***************************************************************************)
(* C15.  As claimed: while an /imagine request is at its generation call   *)
(* or at its download fetch, the handler of another update can start.      *)
(***************************************************************************)
C15_DispatchWhileWaiting ==
    pc \in {"generate", "download"} => ENABLED Dispatch

(***************************************************************************)
(* C16.  As claimed: every generation call submits the joined and trimmed  *)
(* command arguments as its prompt, a count of 1, the size "1024x1024" and *)
(* the fixed model identifier.                                             *)
(***************************************************************************)
C16_GenerationParameters ==
    \A i \in CallIdx("generate") :
        /\ calls[i].prompt = RequestPrompt
        /\ calls[i].n = 1
        /\ calls[i].size = "1024x1024"
        /\ calls[i].model = GenModel

(***************************************************************************)
(* C17.  The steps of one request occur in a strict order: a generation    *)
(* call is preceded by a progress notification that was sent; a download   *)
(* fetch is preceded by a generation call that returned; a photo-by-URL    *)
(* send is preceded by a download fetch; and a text-fallback edit directly *)
(* follows a photo-by-URL send that raised, or a deletion that raised      *)
(* directly after a photo-by-URL send.                                     *)
(***************************************************************************)
C17_StrictStepOrder ==
    /\ \A g \in CallIdx("generate") : \E p \in Ok(ProgressIdx) : p < g
    /\ \A d \in CallIdx("get") : \E g \in Ok(CallIdx("generate")) : g < d
    /\ \A u \in UrlPhotoIdx : \E d \in CallIdx("get") : d < u
    /\ \A f \in FallbackEditIdx :
          \/ (f - 1) \in Failed(UrlPhotoIdx)
          \/ /\ (f - 1) \in Failed(CallIdx("delete"))
             /\ (f - 2) \in Ok(UrlPhotoIdx)

\* A request that went through every step: the text fallback was reached
\* because the deletion after the photo-by-URL send raised.
C17_Witness ==
    /\ Finished
    /\ \E f \in Ok(FallbackEditIdx) :
          /\ (f - 1) \in Failed(CallIdx("delete"))
          /\ (f - 2) \in Ok(UrlPhotoIdx)
    /\ Ok(CallIdx("get")) # {}

(***************************************************************************)
(* C18.  As claimed: the notification is edited to the generic error text  *)
(* only if no photo send of the same request returned before.              *)
(***************************************************************************)
C18_ErrorOnlyIfNoPhoto ==
    \A e \in ErrorEditIdx :
        \A s \in Ok(CallIdx("reply_photo")) : ~(s < e)

(***************************************************************************)
(* C19.  A text message that is no command never starts the pipeline:      *)
(* whatever its text, its handler makes no call but the reminder reply,    *)
(* makes it at most once, and has made it exactly once when it is done; no *)
(* generation call, no download fetch and no progress notification.        *)
(***************************************************************************)
C19_TextMessageOnlyReminder ==
    update.kind = "text" =>
        /\ Len(calls) <= 1
        /\ \A i \in 1..Len(calls) :
              calls[i].op = "reply_text" /\ calls[i].text = ReminderText
        /\ Finished => Len(calls) = 1
        /\ pc = "returned" => calls = <<ReplyText(ReminderText, TRUE)>>
        /\ CallIdx("generate") = {} /\ CallIdx("get") = {} /\ ProgressIdx = {}
        /\ photos = <<>> /\ generating_msg = NoMsg
        /\ pc \in {"text", "returned", "raised", "errored"}

\* A text that would pass as a prompt got the reminder and nothing else.
C19_Witness ==
    /\ update.kind = "text"
    /\ update.text = "a cat on the moon"
    /\ pc = "returned"
    /\ calls = <<ReplyText(ReminderText, TRUE)>>

====
